---- MODULE Spec2Model ----
(***************************************************************************)
(* Model of src/main.py: the AudioVisualizer of the musializer repository. *)
(*                                                                         *)
(* Two execution contexts share the AudioVisualizer object:                *)
(*   - the render loop (AudioVisualizer.run): it handles one event at a    *)
(*     time and calls draw() once per frame;                               *)
(*   - at most one daemon thread running _analyze_audio(path), modelled    *)
(*     statement by statement through the program counter pc.              *)
(* pygame.mixer.music is modelled by music_loaded / music_state / pos_ms / *)
(* endevent / end_pending.                                                 *)
(*                                                                         *)
(* Number representation.  Times are integer milliseconds.  A spectrogram  *)
(* value is an integer number of hundredths of a dB.  A bar energy (a float in *)
(* [0, 1] in the source) is an integer number of EScale-ths.  A bar height *)
(* (a float number of pixels in the source) is an integer number of        *)
(* HScale-ths of a pixel; products are truncated toward zero.              *)
(*                                                                         *)
(* A track is identified by a positive integer standing for its path; a    *)
(* numpy array produced by the analysis of a track is represented by the   *)
(* track it was computed from (its content is TrackDb / TimesMs).          *)
(***************************************************************************)
EXTENDS Integers, Sequences, FiniteSets, TLC

(***************************************************************************)
(* Configuration (src/main.py lines 10-17)                                 *)
(***************************************************************************)
HEIGHT == 800
MAX_BARS == 256
SMOOTHING_FACTOR == 88           \* 0.88, in hundredths
BAR_PRESETS == <<32, 64, 96, 128, 192, 256>>
hop_length == 512

EScale == 1000000                \* energy unit: 1.0 = EScale
HScale == 1000                   \* height unit: 1 pixel = HScale

None == 0                        \* no track, no array
NoData == <<>>                   \* get_current_bars returning None

(***************************************************************************)
(* Bounds of the model                                                     *)
(***************************************************************************)
NumTracks == 3        \* paths the user can drop: 1..NumTracks
MaxSteps == 4         \* user events handled plus frames animated by the render loop
KeySteps == 6         \* the same, for the user who drops files and presses UP and DOWN

Tracks == 1..NumTracks
Bars == 0..(MAX_BARS - 1)

(***************************************************************************)
(* The audio files.  Track t holds hop_length samples at 8000 * t Hz, so   *)
(* the tracks differ in duration.  Paths 3, 7, ... are files pygame.mixer  *)
(* cannot load (line 112 raises); paths 4, 8, ... are files librosa cannot *)
(* decode (line 115 raises).  All paths carry an extension add_to_playlist *)
(* takes; the user can drop any file at any time, also one dropped before. *)
(***************************************************************************)
SampleRate(t) == 8000 * t
Samples(t) == hop_length + 0 * t
\* granularity of the observed playback position: 3/4 of a frame of track 1
TickMs == (3 * ((hop_length * 1000) \div SampleRate(1))) \div 4
FailsLoad(t) == t % 4 = 3
FailsDecode(t) == t % 4 = 0

\* librosa.get_duration(y=y, sr=sr), in ms
Duration(t) == (Samples(t) * 1000) \div SampleRate(t)

\* number of columns of the mel spectrogram (librosa centres the frames)
NumFrames(t) == 1 + (Samples(t) \div hop_length)

\* librosa.frames_to_time(np.arange(n), sr, hop_length), in ms
TimesMs(t) == [i \in 0..(NumFrames(t) - 1) |-> (i * hop_length * 1000) \div SampleRate(t)]

\* librosa.power_to_db(mel_spec, ref=np.max): values in [-80 dB, 0 dB],
\* in hundredths of a dB.  Column 0 is a nearly silent frame.
DbLevels == <<-8000, -7995, -4000, 0>>
TrackDb(t, f, b) ==
    IF f = 0
    THEN (IF b % 2 = 0 THEN -7995 ELSE -8000)
    ELSE DbLevels[((b + f + t) % 4) + 1]

(***************************************************************************)
(* get_current_bars (lines 146-171)                                        *)
(***************************************************************************)
\* np.searchsorted(a, v) with the default side='left': the number of
\* elements of the ascending array a that are < v.
searchsorted(a, v) == Cardinality({i \in DOMAIN a : a[i] < v})

Min(a, b) == IF a < b THEN a ELSE b
Max(a, b) == IF a > b THEN a ELSE b

\* lines 156-157: the column of the spectrogram the tick reads
FrameIdx(tm, ncols, pos) == Min(searchsorted(tm, pos), ncols - 1)

\* np.clip without the upper limit
ClipNoUpper(db) == Max(0, db + 8000)

\* np.clip((full_frame - (-80)) / 80, 0, 1), as a numerator over 8000
Clip(db) == Max(0, Min(8000, db + 8000))

\* np.power(x, 0.6) for x = n / 8000, in EScale-ths, rounded to the nearest
Pow06(n) ==
    CASE n = 0 -> 0
      [] n = 5 -> 11954
      [] n = 2000 -> 435275
      [] n = 4000 -> 659754
      [] n = 6000 -> 841466
      [] n = 8000 -> 1000000
      [] n = 10500 -> 1177225

\* lines 160-161: a full-resolution frame (dB values), normalised
Normalise(full_frame) == [b \in Bars |-> Pow06(Clip(full_frame[b]))]

\* lines 159-161: the normalised column idx of the spectrogram of track t
NormFrame(t, idx) == Normalise([b \in Bars |-> TrackDb(t, idx, b)])

RECURSIVE SumBins(_, _, _)
SumBins(frame, lo, n) == IF n = 0 THEN 0 ELSE frame[lo] + SumBins(frame, lo + 1, n - 1)

\* lines 163-171: frame[: n * bin_size].reshape(n, bin_size).mean(axis=1)
Aggregate(frame, n) ==
    IF n = MAX_BARS
    THEN frame
    ELSE LET bin_size == MAX_BARS \div n
         IN [i \in 0..(n - 1) |-> SumBins(frame, i * bin_size, bin_size) \div bin_size]

\* get_current_bars without the early return of lines 147-148: zeros when
\* no spectrogram is held
get_current_bars_NoNoneCheck(spec, tm, pos, n) ==
    IF spec = None \/ pos < 0
    THEN [i \in 0..(n - 1) |-> 0]
    ELSE Aggregate(NormFrame(spec, FrameIdx(TimesMs(tm), NumFrames(spec), pos)), n)

\* get_current_bars as a function of what it reads
get_current_bars(spec, tm, pos, n) ==
    IF spec = None
    THEN NoData
    ELSE IF pos < 0
         THEN [i \in 0..(n - 1) |-> 0]
         ELSE Aggregate(NormFrame(spec, FrameIdx(TimesMs(tm), NumFrames(spec), pos)), n)

(***************************************************************************)
(* update_animation (lines 173-193)                                        *)
(***************************************************************************)
Abs(x) == IF x < 0 THEN -x ELSE x
TruncDiv(a, b) == IF a >= 0 THEN a \div b ELSE -((-a) \div b)

\* self.screen.get_height(): the window is created HEIGHT pixels high and
\* RESIZABLE (lines 42-44), and the display surface follows the window
VARIABLE screen_height

\* line 183: int(self.screen.get_height() * 0.85) - 100, read in every tick
available_height == ((screen_height * 85) \div 100) - 100

\* line 186: data[i] * available_height, in HScale-ths of a pixel
Target(e) == TruncDiv(e * available_height, EScale \div HScale)

\* line 190 with the sign of the smoothing factor slipped
EasedOvershoot(h, target) == h + TruncDiv((target - h) * (100 + SMOOTHING_FACTOR), 100)

\* line 190: the height after `+= diff * (1 - SMOOTHING_FACTOR)`
Eased(h, target) == h + TruncDiv((target - h) * (100 - SMOOTHING_FACTOR), 100)

\* the tick without the reset of lines 192-193
StepNoSnap(h, target) == Eased(h, target)

\* lines 189-193: the new stored height of one bar
Step(h, target) ==
    IF Abs(target - h) < HScale \div 2 /\ target < HScale
    THEN 0
    ELSE Eased(h, target)

\* draw_spectrum, lines 332-335: the height drawn for a stored height
Visible(h) == IF 2 * h < HScale THEN 0 ELSE h

(***************************************************************************)
(* State                                                                   *)
(***************************************************************************)
VARIABLES
    playlist,          \* sequence of PlaylistItem: [path, duration]
    current_index,     \* self.current_index (-1: nothing selected)
    is_analyzing,      \* self.is_analyzing
    active_bars,       \* self.active_bars
    full_spectrogram,  \* None, or the track whose spectrogram is held
    fresh,             \* TRUE while no update_animation has read the array
                       \* full_spectrogram holds
    times,             \* None, or the track whose frame times are held
    current_duration,  \* self.current_duration, in ms
    bar_heights,       \* self.bar_heights, in HScale-ths of a pixel
    target_heights,    \* self.target_heights
    pc,                \* position of the analysis thread ("idle": no thread)
    thread_path,       \* the path argument of the running _analyze_audio
    stored,            \* TRUE once the running (or last) _analyze_audio
                       \* has assigned self.full_spectrogram
    music_loaded,      \* the file pygame.mixer.music holds
    music_state,       \* "stopped", "playing" or "paused"
    pos_ms,            \* pygame.mixer.music.get_pos()
    endevent,          \* TRUE once set_endevent(USEREVENT + 1) was called
    end_pending,       \* USEREVENT + 1 events waiting in the event queue
    steps,             \* user events (resizes included) and calls of draw()
                       \* whose update_animation runs its loop that the
                       \* behaviour can still hold
    shown,             \* what the last draw() did
    pending_path,      \* None, or the path play_index is about to hand to
                       \* load_file_threaded: the render loop is between
                       \* line 98 (self.current_index = index) and line 102
    in_draw,           \* TRUE while draw() is between its two reads of
                       \* self.is_analyzing (lines 485 and 494), the first
                       \* having found it set
    probe              \* argument and result of a function applied on its
                       \* own (SpecBars, SpecEase); NoProbe in the program

vars == <<playlist, current_index, is_analyzing, active_bars, full_spectrogram,
          fresh, times, current_duration, bar_heights, target_heights, pc,
          thread_path, stored, music_loaded, music_state, pos_ms, endevent,
          end_pending, steps, shown, screen_height, in_draw, pending_path,
          probe>>

analysis == <<full_spectrogram, times, current_duration>>
bar_state == <<bar_heights, target_heights>>
thread == <<is_analyzing, pc, thread_path, stored>>
music == <<music_loaded, music_state, pos_ms, endevent, end_pending>>

Zeros == [i \in Bars |-> 0]

\* PlaylistItem.__init__ (lines 30-34)
PlaylistItem(path) == [path |-> path, duration |-> 0]

\* what the last draw() did: "animated" (update_animation ran its loop),
\* "loading" (no update, the LOADING overlay of lines 494-501), "stale" (no
\* update and no overlay), "empty" (no spectrogram, nothing animated);
\* NoShow: no frame drawn yet.
NoShow == "none"

\* no function is applied on its own
NoProbe == <<>>

\* AudioVisualizer.__init__ (lines 50-65)
Constructed ==
    /\ playlist = <<>>
    /\ current_index = -1
    /\ is_analyzing = FALSE
    /\ active_bars = 96
    /\ full_spectrogram = None
    /\ fresh = FALSE
    /\ times = None
    /\ current_duration = 0
    /\ bar_heights = Zeros
    /\ target_heights = Zeros
    /\ pc = "idle"
    /\ thread_path = None
    /\ stored = FALSE
    /\ music_loaded = None
    /\ music_state = "stopped"
    /\ pos_ms = -1
    /\ endevent = FALSE
    /\ end_pending = 0
    /\ shown = NoShow
    /\ screen_height = HEIGHT
    /\ in_draw = FALSE
    /\ pending_path = None

Init == Constructed /\ steps = MaxSteps /\ probe = NoProbe

(***************************************************************************)
(* Track selection (lines 83-107)                                          *)
(***************************************************************************)
\* load_file_threaded without the test of lines 102-103: every request starts
\* a thread
load_file_threaded_NoGuard(path) ==
    /\ is_analyzing' = TRUE
    /\ pc' = "stop"
    /\ thread_path' = path
    /\ stored' = FALSE

\* load_file_threaded(path): nothing while an analysis runs, else a thread
load_file_threaded(path) ==
    IF is_analyzing
    THEN UNCHANGED thread
    ELSE /\ is_analyzing' = TRUE
         /\ pc' = "stop"
         /\ thread_path' = path
         /\ stored' = FALSE

\* play_index(index) on the playlist pl, lines 97-98 and the argument of
\* line 99: the index is stored, and the call of load_file_threaded with the
\* item's path is what the render loop does next (PlayIndexLoad).  The
\* analysis thread can run between the two.
play_index(pl, index) ==
    IF 0 <= index /\ index < Len(pl)
    THEN /\ current_index' = index
         /\ pending_path' = pl[index + 1].path
    ELSE UNCHANGED <<current_index, pending_path>>

\* line 99 of play_index: self.load_file_threaded(path), lines 101-107.  The
\* test of line 102 and the start of the thread are one step: when the flag
\* is found clear no thread is running.
PlayIndexLoad ==
    /\ pending_path # None
    /\ load_file_threaded(pending_path)
    /\ pending_path' = None
    /\ UNCHANGED <<playlist, current_index, active_bars, analysis, fresh,
                   bar_state, music, steps, shown, screen_height, in_draw, probe>>

\* DROPFILE event -> add_to_playlist(path)
DropFile(path) ==
    /\ ~in_draw
    /\ pending_path = None
    /\ steps > 0
    /\ steps' = steps - 1
    /\ playlist' = Append(playlist, PlaylistItem(path))
    /\ IF Len(playlist') = 1
       THEN play_index(playlist', 0)
       ELSE UNCHANGED <<current_index, pending_path>>
    /\ UNCHANGED <<active_bars, analysis, fresh, bar_state, music, shown>>
    /\ UNCHANGED <<thread, screen_height, in_draw, probe>>

\* MOUSEBUTTONDOWN, button 1 -> handle_click on the row of item idx
Click(idx) ==
    /\ ~in_draw
    /\ pending_path = None
    /\ steps > 0
    /\ steps' = steps - 1
    /\ play_index(playlist, idx)
    /\ UNCHANGED <<playlist, active_bars, analysis, fresh, bar_state, music, shown>>
    /\ UNCHANGED <<thread, screen_height, in_draw, probe>>

\* KEYDOWN K_LEFT (lines 542-544)
KeyLeft ==
    /\ ~in_draw
    /\ pending_path = None
    /\ steps > 0
    /\ steps' = steps - 1
    /\ IF current_index > 0
       THEN play_index(playlist, current_index - 1)
       ELSE UNCHANGED <<current_index, pending_path>>
    /\ UNCHANGED <<playlist, active_bars, analysis, fresh, bar_state, music, shown>>
    /\ UNCHANGED <<thread, screen_height, in_draw, probe>>

\* KEYDOWN K_RIGHT (lines 546-548)
KeyRight ==
    /\ ~in_draw
    /\ pending_path = None
    /\ steps > 0
    /\ steps' = steps - 1
    /\ IF current_index < Len(playlist) - 1
       THEN play_index(playlist, current_index + 1)
       ELSE UNCHANGED <<current_index, pending_path>>
    /\ UNCHANGED <<playlist, active_bars, analysis, fresh, bar_state, music, shown>>
    /\ UNCHANGED <<thread, screen_height, in_draw, probe>>

\* the end-of-track handler wrapping around to the first entry after the
\* last one
EndEventWrap ==
    /\ ~in_draw
    /\ pending_path = None
    /\ end_pending > 0
    /\ end_pending' = end_pending - 1
    /\ IF current_index < Len(playlist) - 1
       THEN play_index(playlist, current_index + 1)
       ELSE play_index(playlist, 0)
    /\ UNCHANGED <<playlist, active_bars, analysis, fresh, bar_state,
                   music_loaded, music_state, pos_ms, endevent, steps, shown>>
    /\ UNCHANGED <<thread, screen_height, in_draw, probe>>

\* USEREVENT + 1 taken from the event queue (lines 518-520)
EndEvent ==
    /\ ~in_draw
    /\ pending_path = None
    /\ end_pending > 0
    /\ end_pending' = end_pending - 1
    /\ IF current_index < Len(playlist) - 1
       THEN play_index(playlist, current_index + 1)
       ELSE UNCHANGED <<current_index, pending_path>>
    /\ UNCHANGED <<playlist, active_bars, analysis, fresh, bar_state,
                   music_loaded, music_state, pos_ms, endevent, steps, shown>>
    /\ UNCHANGED <<thread, screen_height, in_draw, probe>>

(***************************************************************************)
(* _analyze_audio(path), one statement per step (lines 109-144).  The      *)
(* render loop can run between any two statements of the thread.           *)
(***************************************************************************)
\* line 111: pygame.mixer.music.stop().  Halting music that is playing or
\* paused runs the music-finished hook, which posts the end event once
\* set_endevent was called.
ThreadStop ==
    /\ pc = "stop"
    /\ IF music_state # "stopped"
       THEN /\ music_state' = "stopped"
            /\ pos_ms' = -1
            /\ IF endevent
               THEN end_pending' = end_pending + 1
               ELSE UNCHANGED end_pending
       ELSE UNCHANGED <<music_state, pos_ms, end_pending>>
    /\ pc' = "load"
    /\ UNCHANGED <<playlist, current_index, is_analyzing, active_bars, analysis,
                   fresh, bar_state, thread_path, stored, music_loaded,
                   endevent, steps, shown>>
    /\ UNCHANGED <<screen_height, in_draw, pending_path, probe>>

\* line 112 with the flag cleared at the end of the try block instead of in
\* finally: a raising music.load ends the thread with is_analyzing set
ThreadLoadNoFinally ==
    /\ pc = "load"
    /\ IF FailsLoad(thread_path)
       THEN /\ pc' = "idle"
            /\ UNCHANGED music_loaded
       ELSE /\ pc' = "decode"
            /\ music_loaded' = thread_path
    /\ UNCHANGED <<playlist, current_index, is_analyzing, active_bars, analysis,
                   fresh, bar_state, thread_path, stored, music_state, pos_ms,
                   endevent, end_pending, steps, shown>>
    /\ UNCHANGED <<screen_height, in_draw, pending_path, probe>>

\* line 112: pygame.mixer.music.load(path), which raises on a file pygame
\* cannot load and then keeps the file it held
ThreadLoad ==
    /\ pc = "load"
    /\ IF FailsLoad(thread_path)
       THEN /\ pc' = "finally"
            /\ UNCHANGED music_loaded
       ELSE /\ pc' = "decode"
            /\ music_loaded' = thread_path
    /\ UNCHANGED <<playlist, current_index, is_analyzing, active_bars, analysis,
                   fresh, bar_state, thread_path, stored, music_state, pos_ms,
                   endevent, end_pending, steps, shown>>
    /\ UNCHANGED <<screen_height, in_draw, pending_path, probe>>

\* lines 115-116: librosa.load (raises on a file it cannot decode), then
\* self.current_duration = librosa.get_duration(...)
ThreadDecode ==
    /\ pc = "decode"
    /\ IF FailsDecode(thread_path)
       THEN /\ pc' = "finally"
            /\ UNCHANGED current_duration
       ELSE /\ pc' = "item_duration"
            /\ current_duration' = Duration(thread_path)
    /\ UNCHANGED <<playlist, current_index, is_analyzing, active_bars,
                   full_spectrogram, fresh, times, bar_state, thread_path,
                   stored, music, steps, shown>>
    /\ UNCHANGED <<screen_height, in_draw, pending_path, probe>>

\* lines 119-120: self.playlist[self.current_index].duration = ...
ThreadItemDuration ==
    /\ pc = "item_duration"
    /\ IF 0 <= current_index /\ current_index < Len(playlist)
       THEN playlist' = [playlist EXCEPT ![current_index + 1].duration = current_duration]
       ELSE UNCHANGED playlist
    /\ pc' = "spectrogram"
    /\ UNCHANGED <<current_index, is_analyzing, active_bars, analysis, fresh,
                   bar_state, thread_path, stored, music, steps, shown>>
    /\ UNCHANGED <<screen_height, in_draw, pending_path, probe>>

\* lines 123-127: self.full_spectrogram = librosa.power_to_db(...), a new
\* array
ThreadSpectrogram ==
    /\ pc = "spectrogram"
    /\ full_spectrogram' = thread_path
    /\ fresh' = TRUE
    /\ stored' = TRUE
    /\ pc' = "times"
    /\ UNCHANGED <<playlist, current_index, is_analyzing, active_bars, times,
                   current_duration, bar_state, thread_path, music, steps, shown>>
    /\ UNCHANGED <<screen_height, in_draw, pending_path, probe>>

\* lines 128-130: self.times = librosa.frames_to_time(...)
ThreadTimes ==
    /\ pc = "times"
    /\ times' = thread_path
    /\ pc' = "reset"
    /\ UNCHANGED <<playlist, current_index, is_analyzing, active_bars,
                   full_spectrogram, fresh, current_duration, bar_state,
                   thread_path, stored, music, steps, shown>>
    /\ UNCHANGED <<screen_height, in_draw, pending_path, probe>>

\* _analyze_audio without the fill of line 133
ThreadResetNoFill ==
    /\ pc = "reset"
    /\ pc' = "reset_targets"
    /\ UNCHANGED <<playlist, current_index, is_analyzing, active_bars, analysis,
                   fresh, bar_state, thread_path, stored, music, steps, shown>>
    /\ UNCHANGED <<screen_height, in_draw, pending_path, probe>>

\* line 133: self.bar_heights.fill(0)
ThreadReset ==
    /\ pc = "reset"
    /\ bar_heights' = Zeros
    /\ pc' = "reset_targets"
    /\ UNCHANGED <<playlist, current_index, is_analyzing, active_bars, analysis,
                   fresh, target_heights, thread_path, stored, music, steps, shown>>
    /\ UNCHANGED <<screen_height, in_draw, pending_path, probe>>

\* line 134: self.target_heights.fill(0)
ThreadResetTargets ==
    /\ pc = "reset_targets"
    /\ target_heights' = Zeros
    /\ pc' = "play"
    /\ UNCHANGED <<playlist, current_index, is_analyzing, active_bars, analysis,
                   fresh, bar_heights, thread_path, stored, music, steps, shown>>
    /\ UNCHANGED <<screen_height, in_draw, pending_path, probe>>

\* line 136: pygame.mixer.music.play()
ThreadPlay ==
    /\ pc = "play"
    /\ music_state' = "playing"
    /\ pos_ms' = 0
    /\ pc' = "set_endevent"
    /\ UNCHANGED <<playlist, current_index, is_analyzing, active_bars, analysis,
                   fresh, bar_state, thread_path, stored, music_loaded,
                   endevent, end_pending, steps, shown>>
    /\ UNCHANGED <<screen_height, in_draw, pending_path, probe>>

\* line 138: pygame.mixer.music.set_endevent(pygame.USEREVENT + 1)
ThreadSetEndevent ==
    /\ pc = "set_endevent"
    /\ endevent' = TRUE
    /\ pc' = "finally"
    /\ UNCHANGED <<playlist, current_index, is_analyzing, active_bars, analysis,
                   fresh, bar_state, thread_path, stored, music_loaded,
                   music_state, pos_ms, end_pending, steps, shown>>
    /\ UNCHANGED <<screen_height, in_draw, pending_path, probe>>

\* lines 140-144: the except clause only prints; finally clears the flag
ThreadFinally ==
    /\ pc = "finally"
    /\ is_analyzing' = FALSE
    /\ pc' = "idle"
    /\ UNCHANGED <<playlist, current_index, active_bars, analysis, fresh,
                   bar_state, thread_path, stored, music, steps, shown>>
    /\ UNCHANGED <<screen_height, in_draw, pending_path, probe>>

analyze_audio ==
    \/ ThreadStop
    \/ ThreadLoad
    \/ ThreadDecode
    \/ ThreadItemDuration
    \/ ThreadSpectrogram
    \/ ThreadTimes
    \/ ThreadReset
    \/ ThreadResetTargets
    \/ ThreadPlay
    \/ ThreadSetEndevent
    \/ ThreadFinally

(***************************************************************************)
(* pygame.mixer.music while a file plays                                   *)
(***************************************************************************)
\* playback time passes: get_pos() grows while the music is playing
MusicAdvance ==
    /\ music_state = "playing"
    /\ pos_ms < Duration(music_loaded)
    /\ pos_ms' = pos_ms + TickMs
    /\ UNCHANGED <<playlist, current_index, active_bars, analysis, fresh,
                   bar_state, thread, music_loaded, music_state, endevent,
                   end_pending, steps, shown>>
    /\ UNCHANGED <<screen_height, in_draw, pending_path, probe>>

\* the file has been played to its end: get_pos() is -1 from now on and the
\* end event, if set, is posted
MusicFinish ==
    /\ music_state = "playing"
    /\ pos_ms >= Duration(music_loaded)
    /\ music_state' = "stopped"
    /\ pos_ms' = -1
    /\ IF endevent
       THEN end_pending' = end_pending + 1
       ELSE UNCHANGED end_pending
    /\ UNCHANGED <<playlist, current_index, active_bars, analysis, fresh,
                   bar_state, thread, music_loaded, endevent, steps, shown>>
    /\ UNCHANGED <<screen_height, in_draw, pending_path, probe>>

(***************************************************************************)
(* Keys (lines 533-570)                                                    *)
(***************************************************************************)
\* pygame.mixer.music.get_busy(): playing and not paused
get_busy == music_state = "playing"

\* K_SPACE resuming with play() instead of unpause(): the file restarts
KeySpaceRestart ==
    /\ ~in_draw
    /\ pending_path = None
    /\ steps > 0
    /\ steps' = steps - 1
    /\ music_state # "stopped"
    /\ music_state' = IF get_busy THEN "paused" ELSE "playing"
    /\ pos_ms' = IF get_busy THEN pos_ms ELSE 0
    /\ UNCHANGED <<playlist, current_index, active_bars, analysis, fresh,
                   bar_state, thread, music_loaded, endevent, end_pending,
                   shown>>
    /\ UNCHANGED <<screen_height, in_draw, pending_path, probe>>

\* KEYDOWN K_SPACE (lines 533-537): pause() when busy, else unpause(), which
\* does nothing to music that is stopped
KeySpace ==
    /\ ~in_draw
    /\ pending_path = None
    /\ steps > 0
    /\ steps' = steps - 1
    /\ music_state # "stopped"
    /\ music_state' = IF get_busy THEN "paused" ELSE "playing"
    /\ UNCHANGED <<playlist, current_index, active_bars, analysis, fresh,
                   bar_state, thread, music_loaded, pos_ms, endevent,
                   end_pending, shown>>
    /\ UNCHANGED <<screen_height, in_draw, pending_path, probe>>

\* BAR_PRESETS.index(self.active_bars), 0-based
PresetIndex(n) == CHOOSE k \in 0..(Len(BAR_PRESETS) - 1) : BAR_PRESETS[k + 1] = n

\* K_UP with the fills of lines 558-559 outside the if of line 556
KeyUpFillAlways ==
    /\ LET idx == PresetIndex(active_bars)
       IN IF idx < Len(BAR_PRESETS) - 1
          THEN active_bars' = BAR_PRESETS[idx + 2]
          ELSE UNCHANGED active_bars
    /\ bar_heights' = Zeros
    /\ target_heights' = Zeros
    /\ ~in_draw
    /\ pending_path = None
    /\ steps > 0
    /\ steps' = steps - 1
    /\ UNCHANGED <<playlist, current_index, analysis, fresh, thread, music, shown>>
    /\ UNCHANGED <<screen_height, in_draw, pending_path, probe>>

\* KEYDOWN K_UP (lines 550-559)
KeyUp ==
    /\ LET idx == PresetIndex(active_bars)
       IN IF idx < Len(BAR_PRESETS) - 1
          THEN /\ active_bars' = BAR_PRESETS[idx + 2]
               /\ bar_heights' = Zeros
               /\ target_heights' = Zeros
          ELSE UNCHANGED <<active_bars, bar_state>>
    /\ ~in_draw
    /\ pending_path = None
    /\ steps > 0
    /\ steps' = steps - 1
    /\ UNCHANGED <<playlist, current_index, analysis, fresh, thread, music, shown>>
    /\ UNCHANGED <<screen_height, in_draw, pending_path, probe>>

\* KEYDOWN K_DOWN (lines 561-570)
KeyDown ==
    /\ LET idx == PresetIndex(active_bars)
       IN IF idx > 0
          THEN /\ active_bars' = BAR_PRESETS[idx]
               /\ bar_heights' = Zeros
               /\ target_heights' = Zeros
          ELSE UNCHANGED <<active_bars, bar_state>>
    /\ ~in_draw
    /\ pending_path = None
    /\ steps > 0
    /\ steps' = steps - 1
    /\ UNCHANGED <<playlist, current_index, analysis, fresh, thread, music, shown>>
    /\ UNCHANGED <<screen_height, in_draw, pending_path, probe>>

(***************************************************************************)
(* draw() (lines 484-506) with update_animation (lines 173-193)            *)
(***************************************************************************)
\* the energies update_animation gets from get_current_bars
TickData == get_current_bars(full_spectrogram, times, pos_ms, active_bars)

\* update_animation: the new target_heights and bar_heights
update_animation ==
    IF full_spectrogram = None
    THEN UNCHANGED bar_state
    ELSE LET data == TickData
         IN /\ target_heights' = [i \in Bars |->
                    IF i < active_bars THEN Target(data[i]) ELSE target_heights[i]]
            /\ bar_heights' = [i \in Bars |->
                    IF i < active_bars
                    THEN Step(bar_heights[i], Target(data[i]))
                    ELSE bar_heights[i]]

\* draw() without the is_analyzing test of line 485: update_animation runs
\* in every frame
DrawNoGuard ==
    /\ ~in_draw
    /\ pending_path = None
    /\ full_spectrogram # None => times # None
    /\ update_animation
    /\ in_draw' = is_analyzing
    /\ shown' = (IF is_analyzing THEN shown
                 ELSE IF full_spectrogram # None THEN "animated" ELSE "empty")
    /\ IF full_spectrogram # None
       THEN /\ steps > 0
            /\ steps' = steps - 1
            /\ fresh' = FALSE
       ELSE UNCHANGED <<steps, fresh>>
    /\ UNCHANGED <<playlist, current_index, active_bars, analysis, thread, music>>
    /\ UNCHANGED <<screen_height, pending_path, probe>>

\* one iteration of the render loop after its events: draw(), from line 485.
\* When line 485 finds is_analyzing clear no thread is running and only the
\* render loop can start one, so the whole of draw() is one step:
\* update_animation, the drawing code (which only reads) and no overlay.
\* When it finds is_analyzing set, update_animation is skipped and the thread
\* runs on while the sidebar, the bars and the progress bar are drawn, until
\* line 494 reads the flag again (DrawOverlay).
Draw ==
    /\ ~in_draw
    /\ pending_path = None
    /\ IF is_analyzing
       THEN /\ in_draw' = TRUE
            /\ UNCHANGED <<bar_state, steps, fresh, shown>>
       ELSE /\ update_animation
            /\ in_draw' = FALSE
            /\ IF full_spectrogram # None
               THEN /\ steps > 0
                    /\ steps' = steps - 1
                    /\ shown' = "animated"
                    /\ fresh' = FALSE
               ELSE /\ shown' = "empty"
                    /\ UNCHANGED <<steps, fresh>>
    /\ UNCHANGED <<playlist, current_index, active_bars, analysis, thread, music>>
    /\ UNCHANGED <<screen_height, pending_path, probe>>

\* lines 494-506 of a draw() that skipped update_animation: the LOADING
\* overlay is drawn if is_analyzing is still set; nothing in draw() waits
\* for the analysis thread
DrawOverlay ==
    /\ in_draw
    /\ in_draw' = FALSE
    /\ shown' = (IF is_analyzing THEN "loading" ELSE "stale")
    /\ UNCHANGED <<playlist, current_index, active_bars, analysis, fresh,
                   bar_state, thread, music, steps, screen_height,
                   pending_path, probe>>

(***************************************************************************)
(* The window (lines 42-44): the user resizes it                           *)
(***************************************************************************)
\* window heights the user can choose: too low for the bar area, lower than
\* the initial height, and the initial height
Heights == {100, 300, HEIGHT}

\* the render loop takes the resize from the event queue: from now on
\* self.screen.get_height() is h
Resize(h) ==
    /\ ~in_draw
    /\ pending_path = None
    /\ steps > 0
    /\ steps' = steps - 1
    /\ h # screen_height
    /\ screen_height' = h
    /\ UNCHANGED <<playlist, current_index, active_bars, analysis, fresh,
                   bar_state, thread, music, shown, in_draw, pending_path,
                   probe>>

(***************************************************************************)
(* The program                                                             *)
(***************************************************************************)
Next ==
    \/ \E path \in Tracks : DropFile(path)
    \/ \E idx \in 0..(Len(playlist) - 1) : Click(idx)
    \/ KeyLeft
    \/ KeyRight
    \/ EndEvent
    \/ PlayIndexLoad
    \/ KeySpace
    \/ KeyUp
    \/ KeyDown
    \/ \E h \in Heights : Resize(h)
    \/ Draw
    \/ DrawOverlay
    \/ MusicAdvance
    \/ MusicFinish
    \/ analyze_audio

Spec == Init /\ [][Next]_vars

\* The program with its analysis thread scheduled: the thread is a daemon
\* thread of the interpreter (lines 105-107), which keeps giving it the
\* processor while it has a statement to run, and its library calls return
\* or raise.
FairSpec == Spec /\ WF_vars(analyze_audio)

\* The program with a user who only drops files, two files that load and
\* decode, and presses UP and DOWN (lines 522-524 and 550-570 of the event
\* loop), for KeySteps events and animated frames: long enough to bring the
\* bar count from 96 to either end of the presets, animate the bars there and
\* press the key once more.
KeyTracks == {t \in Tracks : ~FailsLoad(t) /\ ~FailsDecode(t)}

InitKeys == Constructed /\ steps = KeySteps /\ probe = NoProbe

NextKeys ==
    \/ \E path \in KeyTracks : DropFile(path)
    \/ EndEvent
    \/ PlayIndexLoad
    \/ KeyUp
    \/ KeyDown
    \/ Draw
    \/ DrawOverlay
    \/ MusicAdvance
    \/ MusicFinish
    \/ analyze_audio

SpecKeys == InitKeys /\ [][NextKeys]_vars

(***************************************************************************)
(* get_current_bars on one frame: lines 159-171 applied to a frame of any  *)
(* dB values and a preset bar count                                        *)
(***************************************************************************)
\* the variables of the program
program == <<playlist, current_index, is_analyzing, active_bars, full_spectrogram,
             fresh, times, current_duration, bar_heights, target_heights, pc,
             thread_path, stored, music_loaded, music_state, pos_ms, endevent,
             end_pending, steps, shown, screen_height, in_draw,
             pending_path>>

\* the presets, as a set
Presets == {BAR_PRESETS[k] : k \in 1..Len(BAR_PRESETS)}

\* dB values in and out of the range [-80 dB, 0 dB] librosa produces
ProbeLevels == <<-12000, -8000, -7995, -6000, -4000, -2000, 0, 2500>>
ProbeStrides == {1, 8, MAX_BARS}
ProbeFrame(k, s) == [b \in Bars |-> ProbeLevels[(((b \div s) + k) % Len(ProbeLevels)) + 1]]
ProbeFrames == {ProbeFrame(k, s) : k \in 0..(Len(ProbeLevels) - 1), s \in ProbeStrides}

\* lines 159-171: the bar energies of one full-resolution frame
BarsOfFrame(full_frame, n) == Aggregate(Normalise(full_frame), n)

InitBars ==
    /\ Constructed
    /\ steps = 0
    /\ probe \in [frame : ProbeFrames, n : Presets, bars : {NoData}, done : {FALSE}]

ApplyBars ==
    /\ ~probe.done
    /\ probe' = [probe EXCEPT !.bars = BarsOfFrame(probe.frame, probe.n),
                              !.done = TRUE]
    /\ UNCHANGED program

NextBars == ApplyBars

SpecBars == InitBars /\ [][NextBars]_vars

(***************************************************************************)
(* update_animation on one bar: lines 185-193 applied tick after tick to a *)
(* bar that starts at height 0 and gets the same target in every tick      *)
(***************************************************************************)
MaxTicks == 42        \* ticks applied to the bar

\* constant targets, in HScale-ths of a pixel: below half a pixel, below one
\* pixel, one pixel, and larger ones up to the full available height
EaseTargets == {300, 866, HScale, 3466, 100 * HScale, available_height * HScale}

InitEase ==
    /\ Constructed
    /\ steps = 0
    /\ probe \in [h : {0}, target : EaseTargets, ticks : {0}]

EaseTick ==
    /\ probe.ticks < MaxTicks
    /\ probe' = [probe EXCEPT !.h = Step(probe.h, probe.target),
                              !.ticks = probe.ticks + 1]
    /\ UNCHANGED program

NextEase == EaseTick

SpecEase == InitEase /\ [][NextEase]_vars

(***************************************************************************)
(* Properties                                                              *)
(***************************************************************************)
\* a call of draw() whose update_animation runs its loop: an animation tick
TickStep == Draw /\ ~is_analyzing /\ full_spectrogram # None

\* the step in which _analyze_audio ends, after a run that stored a new
\* spectrogram (Succeeds) or raised before it did (Fails)
ThreadEnds == pc = "finally" /\ pc' = "idle"
Succeeded == stored
SubmittedPath == playlist[current_index + 1].path

\* C1: when an analysis ends successfully, the analysis that is loaded and
\* the music that plays are those of the track submitted last (every
\* play_index stores the submitted index in current_index), also when that
\* track was submitted while the analysis was in flight.
C1_LastSubmittedWins ==
    [][(ThreadEnds /\ Succeeded) =>
          (full_spectrogram' = SubmittedPath /\ music_loaded' = SubmittedPath)]_vars

\* the energies of column f of track t, as targets for n bars
FrameTargets(t, f, n) ==
    LET data == Aggregate(NormFrame(t, f), n)
    IN [i \in 0..(n - 1) |-> Target(data[i])]
ActiveTargets(th, n) == [i \in 0..(n - 1) |-> th[i]]
LastFrame(t) == NumFrames(t) - 1

\* C2: an animation tick made at a position lying strictly between two
\* consecutive timestamps takes its energies from the earlier of the two
\* columns.
C2_LookupSelectsEarlierFrame ==
    [][TickStep =>
          \A i \in 0..(LastFrame(times) - 1) :
             (TimesMs(times)[i] < pos_ms /\ pos_ms < TimesMs(times)[i + 1]) =>
                ActiveTargets(target_heights', active_bars)
                    = FrameTargets(full_spectrogram, i, active_bars)]_vars

\* C3: an animation tick never reads a column outside the spectrogram; for
\* every position before the first timestamp, a negative one included, it
\* yields the first column's data, and beyond the last timestamp the last
\* column's data.
C3_LookupClampsBothEnds ==
    [][TickStep =>
          /\ FrameIdx(TimesMs(times), NumFrames(full_spectrogram), pos_ms)
                \in 0..LastFrame(full_spectrogram)
          /\ pos_ms <= TimesMs(times)[0] =>
                ActiveTargets(target_heights', active_bars)
                    = FrameTargets(full_spectrogram, 0, active_bars)
          /\ pos_ms > TimesMs(times)[LastFrame(times)] =>
                ActiveTargets(target_heights', active_bars)
                    = FrameTargets(full_spectrogram, LastFrame(full_spectrogram), active_bars)
    ]_vars

\* C4: the first animation tick that reads a newly stored spectrogram finds
\* every bar height and every target height at zero.
C4_FirstTickSeesZeroBars ==
    [][(TickStep /\ fresh) =>
          (bar_heights = Zeros /\ target_heights = Zeros)]_vars

\* C4 witness: the last frame drawn animated an earlier analysis, a later
\* analysis has ended, and the tick that will first read it is due.
C4_Witness ==
    /\ ~is_analyzing
    /\ full_spectrogram # None
    /\ shown = "animated"
    /\ fresh
    /\ steps > 0

\* C5: when an analysis ends by an exception, no analysis is held any more.
C5_FailureReturnsToEmpty ==
    [][(ThreadEnds /\ ~Succeeded) =>
          (full_spectrogram' = None /\ times' = None /\ current_duration' = 0)]_vars

\* C6: in every state draw() can read, the spectrogram, the times and the
\* duration held belong to one track.
C6_AnalysisNeverTorn ==
    full_spectrogram # None =>
        (times = full_spectrogram /\ current_duration = Duration(full_spectrogram))

\* C7: the bar state changes only in steps of the render loop, never in a
\* step of the analysis thread.
C7_OnlyRenderLoopWritesBars ==
    [][(bar_heights' # bar_heights \/ target_heights' # target_heights) => pc' = pc]_vars

\* what update_animation would make of the bar heights in this state
Advanced ==
    [i \in Bars |-> IF i < active_bars
                    THEN Step(bar_heights[i], Target(TickData[i]))
                    ELSE bar_heights[i]]

\* C8 (as amended): a draw() begun while an analysis is in flight goes
\* through without waiting for the analysis, and leaves the bar heights, the
\* target heights and the held analysis as they were: the previous track's
\* bars stay on screen but are not advanced.  It draws the LOADING overlay
\* when is_analyzing is still set at line 494; when the analysis has ended
\* since line 485 the frame has neither an update nor an overlay.
C8_DrawDuringAnalysisFreezesBars ==
    /\ []((is_analyzing /\ ~in_draw /\ pending_path = None) => ENABLED Draw)
    /\ [](in_draw => ENABLED DrawOverlay)
    /\ [][/\ (Draw /\ is_analyzing) =>
                /\ in_draw'
                /\ UNCHANGED <<bar_heights, target_heights, full_spectrogram,
                               times, current_duration, is_analyzing, pc>>
          /\ DrawOverlay =>
                /\ shown' = (IF is_analyzing THEN "loading" ELSE "stale")
                /\ UNCHANGED <<bar_heights, target_heights, full_spectrogram,
                               times, current_duration, is_analyzing, pc>>
       ]_vars

\* C8 as stated: a draw() made while an analysis is in flight advances the
\* bar heights from the previous track's frames.
C8_DrawDuringAnalysisAdvancesBars ==
    [][(Draw /\ is_analyzing /\ full_spectrogram # None /\ ~stored) =>
          bar_heights' = Advanced]_vars

\* C8 witness: the LOADING overlay was drawn over the previous track's bars
\* while the analysis of the next track is in flight.
C8_Witness ==
    /\ is_analyzing
    /\ shown = "loading"
    /\ full_spectrogram # None
    /\ ~stored
    /\ bar_heights # Zeros

\* C9: a draw() made with no spectrogram held or with an analysis in flight
\* gets no data and leaves bar heights and target heights unchanged, in its
\* first part (lines 485-486) and in its second (from line 488).
C9_NoTickInEmptyOrLoading ==
    [][/\ (Draw /\ (full_spectrogram = None \/ is_analyzing)) =>
             /\ IF is_analyzing THEN in_draw' /\ shown' = shown
                                ELSE ~in_draw' /\ shown' = "empty"
             /\ full_spectrogram = None => TickData = NoData
             /\ bar_heights' = bar_heights
             /\ target_heights' = target_heights
             /\ steps' = steps
       /\ DrawOverlay =>
             /\ shown' \in {"loading", "stale"}
             /\ bar_heights' = bar_heights
             /\ target_heights' = target_heights
             /\ steps' = steps
    ]_vars

\* C9 witness: a frame was drawn in the EMPTY state left by a failed load.
C9_Witness ==
    /\ shown = "empty"
    /\ full_spectrogram = None
    /\ current_index >= 0
    /\ ~is_analyzing

\* C10 (as amended): a stored height below half a pixel is drawn as zero;
\* an animation tick moves every active bar by the easing step, except that
\* it resets the stored height to zero when the target is below one pixel
\* and the height is within half a pixel of the target; bars that are not
\* active keep their height.
C10_TickEasesOrSnaps ==
    [][TickStep =>
          \A i \in Bars :
             LET h == bar_heights[i]
                 target == target_heights'[i]
             IN /\ i >= active_bars => bar_heights'[i] = h
                /\ i < active_bars =>
                      /\ bar_heights'[i] \in {0, Eased(h, target)}
                      /\ bar_heights'[i] # Eased(h, target) =>
                            (target < HScale /\ 2 * Abs(target - h) < HScale)
                      /\ (target < HScale /\ 2 * Abs(target - h) < HScale) =>
                            bar_heights'[i] = 0
                /\ 2 * bar_heights'[i] < HScale => Visible(bar_heights'[i]) = 0
    ]_vars

\* C10 as stated: the only change an animation tick makes to a stored bar
\* height is the easing step toward the target.
C10_TickOnlyEases ==
    [][TickStep =>
          \A i \in 0..(active_bars - 1) :
             bar_heights'[i] = Eased(bar_heights[i], target_heights'[i])]_vars

\* C10 witness: a tick has left a bar with a stored height above zero and
\* below half a pixel, which is drawn as zero, and the music has stopped, so
\* the next tick eases it toward zero.
C10_Witness ==
    /\ shown = "animated"
    /\ ~is_analyzing
    /\ pos_ms < 0
    /\ steps > 0
    /\ \E i \in 0..(active_bars - 1) :
          bar_heights[i] > 0 /\ Visible(bar_heights[i]) = 0

\* C11: the active bar count is always one of the presets; every step that
\* changes it is an UP or DOWN key and zeroes all bar heights and all target
\* heights; UP moves to the next preset and DOWN to the previous one; UP at
\* the largest preset and DOWN at the smallest change neither the bar count
\* nor any bar height.
C11_BarCountIsPresetAndChangeZeroes ==
    /\ [](active_bars \in Presets)
    /\ [][/\ active_bars' # active_bars =>
                /\ KeyUp \/ KeyDown
                /\ bar_heights' = Zeros
                /\ target_heights' = Zeros
          /\ (KeyUp /\ active_bars # 256) =>
                /\ active_bars' = BAR_PRESETS[PresetIndex(active_bars) + 2]
                /\ bar_heights' = Zeros /\ target_heights' = Zeros
          /\ (KeyDown /\ active_bars # 32) =>
                /\ active_bars' = BAR_PRESETS[PresetIndex(active_bars)]
                /\ bar_heights' = Zeros /\ target_heights' = Zeros
          /\ ((KeyUp /\ active_bars = 256) \/ (KeyDown /\ active_bars = 32)) =>
                UNCHANGED <<active_bars, bar_heights, target_heights>>
       ]_vars

\* C11 witness: UP has brought the bar count from 96 to 256, zeroing the
\* bars at each change, a frame animated since has raised bars above zero,
\* and the render loop can handle one more UP, at the largest preset.
C11_Witness ==
    /\ active_bars = 256
    /\ shown = "animated"
    /\ bar_heights # Zeros
    /\ target_heights # Zeros
    /\ ENABLED KeyUp

\* C12: for every frame, whatever the magnitude of its dB values, and every
\* preset bar count, every bar energy get_current_bars computes from the
\* frame lies in [0, 1].
C12_EnergiesInUnitRange ==
    probe.done =>
        \A i \in DOMAIN probe.bars : probe.bars[i] >= 0 /\ probe.bars[i] <= EScale

\* C12 witness: the energies of a frame holding values below -80 dB and
\* values above 0 dB have been computed, for fewer bars than bins.
C12_Witness ==
    /\ probe.done
    /\ probe.n < MAX_BARS
    /\ \E b \in Bars : probe.frame[b] < -8000
    /\ \E b \in Bars : probe.frame[b] > 0
    /\ \E i \in DOMAIN probe.bars : probe.bars[i] > 0 /\ probe.bars[i] < EScale

\* the number of ticks after which a bar is within 1% of a constant
\* target: 0.88^37 < 0.01, and the thousandths of a pixel the model keeps
\* cost at most three ticks more
ConvergeTicks == 40

WithinOnePercent(h, target) == 100 * Abs(target - h) <= target

\* C13 (as amended): under a constant target of at least one pixel and from
\* height 0, no tick takes the height above the target, no tick lowers it,
\* and after ConvergeTicks ticks it is within 1% of the target.  Under a
\* constant target above zero and below one pixel the reset of lines 192-193
\* returns the height to 0 before it is within half a pixel of the target:
\* the height is never within 1% of the target.
C13_EasingConvergesFromOnePixel ==
    /\ [](probe.target >= HScale =>
             /\ probe.h <= probe.target
             /\ probe.ticks >= ConvergeTicks => WithinOnePercent(probe.h, probe.target))
    /\ []((0 < probe.target /\ probe.target < HScale) =>
             /\ probe.h >= 0
             /\ ~WithinOnePercent(probe.h, probe.target))
    /\ [][probe.target >= HScale => probe'.h >= probe.h]_vars

\* C13 as stated: under any constant target and from height 0, the height
\* never exceeds the target, never decreases, and is within 1% of the target
\* after ConvergeTicks ticks.
C13_EasingConverges ==
    /\ [](/\ probe.h <= probe.target
          /\ probe.ticks >= ConvergeTicks => WithinOnePercent(probe.h, probe.target))
    /\ [][probe'.h >= probe.h]_vars

\* C13 witness: a bar with a target of one pixel has been ticked
\* ConvergeTicks times and is within 1% of it, below it.
C13_Witness ==
    /\ probe.target = HScale
    /\ probe.ticks = ConvergeTicks
    /\ probe.h < probe.target
    /\ WithinOnePercent(probe.h, probe.target)

\* C14: SPACE on playing music pauses it and SPACE on paused music resumes
\* it, each leaving the playback position the tick reads as it is; while
\* the music is paused no step moves the position, so playback resumes from
\* exactly the position of the pause.
C14_PauseResumeContinuous ==
    [][/\ (KeySpace /\ music_state = "playing") =>
             (music_state' = "paused" /\ pos_ms' = pos_ms)
       /\ (KeySpace /\ music_state = "paused") =>
             (music_state' = "playing" /\ pos_ms' = pos_ms)
       /\ (music_state = "paused" /\ music_state' # "stopped") =>
             (pos_ms' = pos_ms /\ music_loaded' = music_loaded)
       /\ (music_state = "paused" /\ music_state' = "playing") => KeySpace
    ]_vars

\* C14 witness: the music was paused after it had played for a while, and
\* the SPACE that resumes it is due.
C14_Witness ==
    /\ music_state = "paused"
    /\ pos_ms > 0
    /\ ~is_analyzing
    /\ steps > 0

\* C15: when the file has been played to its end the music stops, the
\* position reads -1 and the end event, once set, is posted; the handler of the end
\* event submits exactly entry current_index + 1 when current_index is not
\* the last entry (play_index stores the index and passes that entry's path
\* to load_file_threaded, which starts its analysis unless is_analyzing is
\* set when line 102 reads it), and otherwise leaves current_index and the
\* thread alone and submits nothing; a tick made while the music is stopped
\* sets every active target to zero and moves every active bar that is not
\* at zero toward zero.
C15_EndOfTrackAdvancesOrDecays ==
    [][/\ MusicFinish =>
             /\ music_state' = "stopped" /\ pos_ms' < 0
             /\ endevent => end_pending' = end_pending + 1
       /\ (EndEvent /\ current_index < Len(playlist) - 1) =>
             /\ current_index' = current_index + 1
             /\ pending_path' = playlist[current_index + 2].path
             /\ UNCHANGED thread
       /\ PlayIndexLoad =>
             /\ pending_path' = None
             /\ UNCHANGED current_index
             /\ IF is_analyzing
                THEN UNCHANGED thread
                ELSE /\ is_analyzing' /\ pc' = "stop"
                     /\ thread_path' = pending_path
       /\ (EndEvent /\ current_index >= Len(playlist) - 1) =>
             UNCHANGED <<current_index, thread, pending_path>>
       /\ (TickStep /\ music_state = "stopped") =>
             \A i \in 0..(active_bars - 1) :
                /\ target_heights'[i] = 0
                /\ Abs(bar_heights'[i]) <= Abs(bar_heights[i])
                /\ bar_heights[i] # 0 => Abs(bar_heights'[i]) < Abs(bar_heights[i])
                /\ bar_heights[i] > 0 => bar_heights'[i] >= 0
                /\ bar_heights[i] < 0 => bar_heights'[i] <= 0
    ]_vars

\* C15 witness: the last entry has been played to its end, its end event
\* was handled, and a tick has set the targets to zero while bars are still
\* above zero.
C15_Witness ==
    /\ ~is_analyzing
    /\ music_state = "stopped"
    /\ endevent
    /\ end_pending = 0
    /\ current_index = Len(playlist) - 1
    /\ full_spectrogram = music_loaded
    /\ shown = "animated"
    /\ target_heights = Zeros
    /\ bar_heights # Zeros

\* C16: whenever no analysis is in flight, no selection is between line 98
\* and line 102, and a track is selected, the analysis held and the audio
\* loaded are those of playlist[current_index].
C16_IndexDesignatesLoadedTrack ==
    (~is_analyzing /\ pending_path = None /\ current_index >= 0
        /\ full_spectrogram # None) =>
        (full_spectrogram = SubmittedPath /\ music_loaded = SubmittedPath)

\* C17: a playlist item's duration, once set, is the duration of the item's
\* own file.
C17_DurationStoredInOwnItem ==
    \A k \in 1..Len(playlist) :
       playlist[k].duration # 0 => playlist[k].duration = Duration(playlist[k].path)

\* a step in which an analysis thread is started (line 107)
ThreadStarts == pc' = "stop" /\ (pc # "stop" \/ thread_path' # thread_path)

\* C18: is_analyzing is set in every state in which the analysis thread is
\* running, and a thread is started only when none is running and
\* is_analyzing is clear: at most one thread runs, and a load request issued
\* while is_analyzing is set starts none.
C18_SingleAnalysisThread ==
    /\ [](pc # "idle" => is_analyzing)
    /\ [][ThreadStarts => (pc = "idle" /\ ~is_analyzing)]_vars

\* an analysis is running for one track while a request for another track,
\* the selected one, was dropped by line 102
C18_Witness ==
    /\ is_analyzing
    /\ pending_path = None
    /\ pc \notin {"idle", "stop"}
    /\ current_index >= 0
    /\ thread_path # SubmittedPath

\* C19: every accepted load request (is_analyzing set) is followed by a state
\* in which is_analyzing is clear, whether the analysis succeeds or raises, so
\* that load requests are accepted again.
C19_AnalysisFlagEventuallyCleared == is_analyzing ~> ~is_analyzing

\* an analysis whose music.load raised has ended and cleared the flag
C19_Witness ==
    /\ ~is_analyzing
    /\ pc = "idle"
    /\ thread_path # None
    /\ FailsLoad(thread_path)
    /\ ~stored

\* every bar beyond the active ones stands at zero
C20_InactiveBarsAtZero == \A i \in Bars : i >= active_bars => bar_heights[i] = 0

\* C20: in every state bar_heights[i] is zero for every i >= active_bars and
\* lies between 0 and the available drawing height for every i < active_bars.
C20_BarHeightsWithinActiveRange ==
    /\ C20_InactiveBarsAtZero
    /\ \A i \in Bars :
          i < active_bars =>
             (bar_heights[i] >= 0 /\ bar_heights[i] <= available_height * HScale)

\* the normalised frame with the energy of bin b replaced by another one
Poked(frame, b) == [frame EXCEPT ![b] = IF @ = 0 THEN EScale ELSE 0]

\* bin b contributes to bar i of the n bars computed from the normalised
\* frame: another energy in bin b gives another energy of bar i
Contributes(frame, n, b, i) == Aggregate(Poked(frame, b), n)[i] # Aggregate(frame, n)[i]

\* the bins that contribute to bar i
BinsOfBar(frame, n, i) == {b \in Bars : Contributes(frame, n, b, i)}

\* the bars bin b contributes to
BarsOfBin(frame, n, b) == {i \in 0..(n - 1) : Contributes(frame, n, b, i)}

\* get_current_bars returned n energies, bar i computed from the 256 // n
\* consecutive bins that start at bin i * (256 // n), its energy between the
\* least and the greatest energy of these bins
C21_BarsAreConsecutiveGroups ==
    probe.done =>
        LET n == probe.n
            size == MAX_BARS \div n
            frame == Normalise(probe.frame)
        IN /\ DOMAIN probe.bars = 0..(n - 1)
           /\ \A i \in 0..(n - 1) :
                 /\ BinsOfBar(frame, n, i) = (i * size)..(i * size + size - 1)
                 /\ \E b \in BinsOfBar(frame, n, i) : frame[b] <= probe.bars[i]
                 /\ \E b \in BinsOfBar(frame, n, i) : frame[b] >= probe.bars[i]

\* C21: for every preset bar count N, get_current_bars returns exactly N
\* energies, each the mean of 256 // N consecutive normalised bins, the
\* groups disjoint and in ascending bin order, and every one of the 256 bins
\* contributes to exactly one bar.
C21_EveryBinInExactlyOneBar ==
    /\ C21_BarsAreConsecutiveGroups
    /\ probe.done =>
          \A b \in Bars :
             Cardinality(BarsOfBin(Normalise(probe.frame), probe.n, b)) = 1

====
